---------------------------- MODULE Spec2Model ----------------------------
(***************************************************************************)
(* The CHIP-8 virtual machine of octopus (src/src/octopus.cpp): memory,    *)
(* register file, call stack, timers, keypad, frame buffer, and the        *)
(* fetch-decode-execute cycle driven by the host loop of src/src/main.cpp. *)
(***************************************************************************)
EXTENDS Integers, Naturals, Sequences, FiniteSets, TLC

VARIABLES ram, stack, v, pc, i, dt, st, blocked, keys, framebuffer,
          status, err, last, calls, ncycles, nevents, since

vars == <<ram, stack, v, pc, i, dt, st, blocked, keys, framebuffer,
          status, err, last, calls, ncycles, nevents, since>>

(***************************************************************************)
(* Program constants.                                                      *)
(***************************************************************************)
RAM_SIZE == 4096
PROGRAMS_OFFSET == 512
OPCODE_SPAN == 2
KEY_UP == 1
KEY_DOWN == 0
BYTES_PER_FONT == 5
WIDTH == 64
HEIGHT == 32
STACK_LIMIT == 15

(***************************************************************************)
(* Bounds of the exploration.                                              *)
(***************************************************************************)
MaxCycles == 18
MaxIsaCycles == 4
MaxGpuCycles == 8
MaxKeyEvents == 2
MaxTimerCycles == 4
MaxWaitCycles == 6
MaxCountCycles == 7
MaxTicks == 5

fontset ==
  << 240, 144, 144, 144, 240,   32,  96,  32,  32, 112,
     240,  16, 240, 128, 240,  240,  16, 240,  16, 240,
     144, 144, 240,  16,  16,  240, 128, 240,  16, 240,
     240, 128, 240, 144, 240,  240,  16,  32,  64,  64,
     240, 144, 240, 144, 240,  240, 144, 240,  16, 240,
     240, 144, 240, 144, 144,  224, 144, 224, 144, 224,
     240, 128, 128, 128, 240,  224, 144, 144, 144, 224,
     240, 128, 240, 128, 240,  240, 128, 240, 128, 128 >>

(***************************************************************************)
(* Fixed-width arithmetic: uint8_t and uint16_t wrap, bits of a byte.      *)
(***************************************************************************)
U8(n) == n % 256
U16(n) == n % 65536
Bit(n, k) == (n \div (2 ^ k)) % 2

RECURSIVE BitAnd(_, _, _)
BitAnd(a, b, k) ==
  IF k = 8 THEN 0
  ELSE (IF Bit(a, k) = 1 /\ Bit(b, k) = 1 THEN 2 ^ k ELSE 0) + BitAnd(a, b, k + 1)

RECURSIVE BitOr(_, _, _)
BitOr(a, b, k) ==
  IF k = 8 THEN 0
  ELSE (IF Bit(a, k) = 1 \/ Bit(b, k) = 1 THEN 2 ^ k ELSE 0) + BitOr(a, b, k + 1)

RECURSIVE BitXor(_, _, _)
BitXor(a, b, k) ==
  IF k = 8 THEN 0
  ELSE (IF Bit(a, k) # Bit(b, k) THEN 2 ^ k ELSE 0) + BitXor(a, b, k + 1)

(***************************************************************************)
(* Values an undefined read can produce: v[0xf] is left unset by init      *)
(* (memset of 0xf bytes), and ram[] is indexed without a bounds check.     *)
(***************************************************************************)
UninitBytes == {0, 1, 255}
OobBytes == {0, 238}
RandBytes == {0, 85, 255}

(***************************************************************************)
(* Opcode decoding, as the masks and shifts of CPU::execute.               *)
(***************************************************************************)
kind(opcode) == (opcode \div 4096) % 16
target(opcode) == (opcode \div 256) % 16
source(opcode) == (opcode \div 16) % 16
nibble(opcode) == opcode % 16
low_byte(opcode) == opcode % 256
address(opcode) == opcode % 4096

(***************************************************************************)
(* The machine as one record; the variables hold its fields.               *)
(***************************************************************************)
Machine ==
  [ram |-> ram, stack |-> stack, v |-> v, pc |-> pc, i |-> i, dt |-> dt,
   st |-> st, blocked |-> blocked, keys |-> keys, framebuffer |-> framebuffer]

InRam(idx) == idx >= 0 /\ idx < RAM_SIZE

\* The bytes a read of ram[idx] can yield.
ReadRam(m, idx) == IF InRam(idx) THEN {m.ram[idx]} ELSE OobBytes

\* A write of ram[idx]; a write outside the array leaves ram[] as it is.
WriteRam(r, idx, b) == IF InRam(idx) THEN [r EXCEPT ![idx] = b] ELSE r

Top(s) == s[Len(s)]
Pop(s) == SubSeq(s, 1, Len(s) - 1)

Outcome(m, e, used, wild) == [m |-> m, err |-> e, used |-> used, wild |-> wild]
Done(m) == {Outcome(m, "none", {}, FALSE)}
Throw(m, e) == {Outcome(m, e, {}, FALSE)}

(***************************************************************************)
(* GPU: the frame buffer is the set of pixels <<x, y>> that are ON.        *)
(***************************************************************************)
clear_framebuffer(m) == [m EXCEPT !.framebuffer = {}]

\* The pixels one row of the sprite addresses: bit_index runs from 8 down to
\* 0, pixel_x = 8 - bit_index, and a bit that is 0 is skipped.  The nine
\* positions of a row are distinct, so the order of the loop does not matter.
row_pixels(default_x, default_y, byte, pixel_y) ==
  { <<(default_x + (8 - bit_index)) % WIDTH, (default_y + pixel_y) % HEIGHT>> :
      bit_index \in { b \in 0 .. 8 : Bit(byte, b) = 1 } }

\* Variant: a set bit on a pixel that is ON leaves it ON (no XOR).
copy_row_or(default_x, default_y, byte, pixel_y, acc) ==
  LET on == row_pixels(default_x, default_y, byte, pixel_y)
  IN [fb |-> acc.fb \cup on,
      overlapping |-> IF on \cap acc.fb # {} THEN 1 ELSE acc.overlapping]

\* The inner loop of copy_to_framebuffer over one row: a pixel that is OFF
\* is turned ON, a pixel that is ON is turned OFF and sets overlapping.
\* acc = [fb, overlapping].
copy_row(default_x, default_y, byte, pixel_y, acc) ==
  LET on == row_pixels(default_x, default_y, byte, pixel_y)
  IN [fb |-> (acc.fb \ on) \cup (on \ acc.fb),
      overlapping |-> IF on \cap acc.fb # {} THEN 1 ELSE acc.overlapping]

\* The outer loop: pixel_y over the rows of the sprite.
RECURSIVE copy_loop(_, _, _, _, _)
copy_loop(default_x, default_y, sprite, pixel_y, acc) ==
  IF pixel_y >= Len(sprite) THEN acc
  ELSE copy_loop(default_x, default_y, sprite, pixel_y + 1,
                 copy_row(default_x, default_y, sprite[pixel_y + 1], pixel_y, acc))

copy_to_framebuffer(fb, default_x, default_y, sprite) ==
  copy_loop(default_x, default_y, sprite, 0, [fb |-> fb, overlapping |-> 0])

(***************************************************************************)
(* CPU::fetch_opcode: two reads of ram[], no bounds check, pc += 2.        *)
(***************************************************************************)
\* Variant: the two bytes combined low byte first.
fetch_opcode_swapped(m) ==
  { [m |-> [m EXCEPT !.pc = U16(m.pc + OPCODE_SPAN)],
     opcode |-> low * 256 + high_byte,
     used |-> {m.pc, m.pc + 1}] :
    high_byte \in ReadRam(m, m.pc), low \in ReadRam(m, m.pc + 1) }

fetch_opcode(m) ==
  { [m |-> [m EXCEPT !.pc = U16(m.pc + OPCODE_SPAN)],
     opcode |-> high_byte * 256 + low,
     used |-> {m.pc, m.pc + 1}] :
    high_byte \in ReadRam(m, m.pc), low \in ReadRam(m, m.pc + 1) }

(***************************************************************************)
(* CPU::execute, one operator per case label.  Each yields the set of      *)
(* outcomes the instruction can have on machine m (pc already advanced).   *)
(***************************************************************************)
op_CLS(m) == Done(clear_framebuffer(m))

\* Variant: RET that sets pc from the top of the stack and leaves it there.
op_RET_no_pop(m) ==
  IF Len(m.stack) = 0 THEN Throw(m, "StackUnderflow")
  ELSE Done([m EXCEPT !.pc = Top(m.stack)])

\* Variant: RET that does nothing on an empty stack.
op_RET_silent(m) ==
  IF Len(m.stack) = 0 THEN Done(m)
  ELSE Done([m EXCEPT !.pc = Top(m.stack), !.stack = Pop(m.stack)])

op_RET(m) ==
  IF Len(m.stack) = 0 THEN Throw(m, "StackUnderflow")
  ELSE Done([m EXCEPT !.pc = Top(m.stack), !.stack = Pop(m.stack)])

op_SYS(m) == Done(m)

op_JP(m, opcode) == Done([m EXCEPT !.pc = address(opcode)])

\* Variant: the overflow test one entry late.
op_CALL_late(m, opcode) ==
  IF Len(m.stack) > STACK_LIMIT + 1 THEN Throw(m, "StackOverflow")
  ELSE Done([m EXCEPT !.stack = Append(m.stack, m.pc), !.pc = address(opcode)])

op_CALL(m, opcode) ==
  IF Len(m.stack) > STACK_LIMIT THEN Throw(m, "StackOverflow")
  ELSE Done([m EXCEPT !.stack = Append(m.stack, m.pc), !.pc = address(opcode)])

Skip(m, cond) == Done(IF cond THEN [m EXCEPT !.pc = U16(m.pc + OPCODE_SPAN)] ELSE m)

op_SE_byte(m, opcode) == Skip(m, m.v[target(opcode)] = low_byte(opcode))
op_SNE_byte(m, opcode) == Skip(m, m.v[target(opcode)] # low_byte(opcode))
op_SE_reg(m, opcode) == Skip(m, m.v[target(opcode)] = m.v[source(opcode)])
\* Variant: SNE Vx, Vy that skips when the registers are equal.
op_SNE_reg_equal(m, opcode) == Skip(m, m.v[target(opcode)] = m.v[source(opcode)])

op_SNE_reg(m, opcode) == Skip(m, m.v[target(opcode)] # m.v[source(opcode)])

op_LD_byte(m, opcode) == Done([m EXCEPT !.v[target(opcode)] = low_byte(opcode)])

\* Variant: ADD Vx, value that stores the value instead of adding it.
op_ADD_byte_assign(m, opcode) ==
  Done([m EXCEPT !.v[target(opcode)] = low_byte(opcode)])

op_ADD_byte(m, opcode) ==
  Done([m EXCEPT !.v[target(opcode)] = U8(m.v[target(opcode)] + low_byte(opcode))])

op_LD_reg(m, opcode) ==
  Done([m EXCEPT !.v[target(opcode)] = m.v[source(opcode)]])

op_OR(m, opcode) ==
  Done([m EXCEPT !.v[target(opcode)] = BitOr(m.v[target(opcode)], m.v[source(opcode)], 0)])

op_AND(m, opcode) ==
  Done([m EXCEPT !.v[target(opcode)] = BitAnd(m.v[target(opcode)], m.v[source(opcode)], 0)])

op_XOR(m, opcode) ==
  Done([m EXCEPT !.v[target(opcode)] = BitXor(m.v[target(opcode)], m.v[source(opcode)], 0)])

\* carry is computed first, then v[target] += v[source], then v[0xf] = carry.
op_ADD_reg(m, opcode) ==
  LET t == target(opcode)
      s == source(opcode)
      carry == IF m.v[t] + m.v[s] >= 255 THEN 1 ELSE 0
      v1 == [m.v EXCEPT ![t] = U8(m.v[t] + m.v[s])]
      v2 == [v1 EXCEPT ![15] = carry]
  IN Done([m EXCEPT !.v = v2])

\* Variant: not_borrow with a strict comparison.
op_SUB_strict(m, opcode) ==
  LET t == target(opcode)
      s == source(opcode)
      not_borrow == IF m.v[t] > m.v[s] THEN 1 ELSE 0
      v1 == [m.v EXCEPT ![t] = U8(m.v[t] - m.v[s])]
      v2 == [v1 EXCEPT ![15] = not_borrow]
  IN Done([m EXCEPT !.v = v2])

op_SUB(m, opcode) ==
  LET t == target(opcode)
      s == source(opcode)
      not_borrow == IF m.v[t] >= m.v[s] THEN 1 ELSE 0
      v1 == [m.v EXCEPT ![t] = U8(m.v[t] - m.v[s])]
      v2 == [v1 EXCEPT ![15] = not_borrow]
  IN Done([m EXCEPT !.v = v2])

\* Variant: the flag taken from v[target] after the shift.
op_SHR_after(m, opcode) ==
  LET t == target(opcode)
      v1 == [m.v EXCEPT ![t] = m.v[t] \div 2]
      v2 == [v1 EXCEPT ![15] = v1[t] % 2]
  IN Done([m EXCEPT !.v = v2])

op_SHR(m, opcode) ==
  LET t == target(opcode)
      least_significant_bit == m.v[t] % 2
      v1 == [m.v EXCEPT ![t] = m.v[t] \div 2]
      v2 == [v1 EXCEPT ![15] = least_significant_bit]
  IN Done([m EXCEPT !.v = v2])

\* v[target] is overwritten first; the flag compares the registers as they
\* are after that assignment.
op_SUBN(m, opcode) ==
  LET t == target(opcode)
      s == source(opcode)
      v1 == [m.v EXCEPT ![t] = U8(m.v[s] - m.v[t])]
      v2 == [v1 EXCEPT ![15] = IF v1[s] > v1[t] THEN 1 ELSE 0]
  IN Done([m EXCEPT !.v = v2])

op_SHL(m, opcode) ==
  LET t == target(opcode)
      most_significant_bit == BitAnd(m.v[t], 128, 0)
      v1 == [m.v EXCEPT ![t] = U8(m.v[t] * 2)]
      v2 == [v1 EXCEPT ![15] = IF most_significant_bit > 0 THEN 1 ELSE 0]
  IN Done([m EXCEPT !.v = v2])

op_LD_I(m, opcode) == Done([m EXCEPT !.i = address(opcode)])

op_JP_V0(m, opcode) == Done([m EXCEPT !.pc = U16(address(opcode) + m.v[0])])

op_RND(m, opcode) ==
  { Outcome([m EXCEPT !.v[target(opcode)] = BitAnd(r, low_byte(opcode), 0)],
            "none", {}, FALSE) : r \in RandBytes }

\* All the sprites the loop over ram[i + byte] can collect: a row outside
\* ram[] is any of OobBytes.
RECURSIVE sprites(_, _, _)
sprites(m, length, byte) ==
  IF byte >= length THEN {<< >>}
  ELSE { <<b>> \o rest : b \in ReadRam(m, m.i + byte),
                         rest \in sprites(m, length, byte + 1) }

op_DRW(m, opcode) ==
  LET x == target(opcode)
      y == source(opcode)
      length == nibble(opcode)
      used == {m.i + byte : byte \in 0 .. (length - 1)}
  IN { LET res == copy_to_framebuffer(m.framebuffer, m.v[x], m.v[y], sprite)
       IN Outcome([m EXCEPT !.framebuffer = res.fb, !.v[15] = res.overlapping],
                  "none", used, FALSE) :
       sprite \in sprites(m, length, 0) }

(***************************************************************************)
(* Group 0xE.  keys[v[source]] is std::map::operator[]: a code that is not *)
(* in the map is inserted with state 0 before the low byte is looked at.   *)
(***************************************************************************)
key_ref(m, code) ==
  IF code \in DOMAIN m.keys THEN m
  ELSE [m EXCEPT !.keys = [c \in (DOMAIN m.keys) \cup {code} |->
                             IF c = code THEN 0 ELSE m.keys[c]]]

op_SKP(m, opcode) ==
  LET m1 == key_ref(m, m.v[target(opcode)])
  IN Skip(m1, m1.keys[m.v[target(opcode)]] = KEY_UP)

\* Variant: SKNP Vx that skips when the key is pressed.
op_SKNP_pressed(m, opcode) ==
  LET m1 == key_ref(m, m.v[target(opcode)])
  IN Skip(m1, m1.keys[m.v[target(opcode)]] = KEY_UP)

op_SKNP(m, opcode) ==
  LET m1 == key_ref(m, m.v[target(opcode)])
  IN Skip(m1, m1.keys[m.v[target(opcode)]] = KEY_DOWN)

op_E_default(m, opcode) ==
  Throw(key_ref(m, m.v[target(opcode)]), "UnsupportedInstruction")

(***************************************************************************)
(* Group 0xF.                                                              *)
(***************************************************************************)
\* Variant: LD Vx, DT that also stops the timer.
op_LD_Vx_DT_reset(m, opcode) ==
  Done([m EXCEPT !.v[target(opcode)] = m.dt, !.dt = 0])

op_LD_Vx_DT(m, opcode) == Done([m EXCEPT !.v[target(opcode)] = m.dt])

\* Variant: a scan that stops at the first pressed key.
scan_keys_first(m, t, codes) ==
  LET pressed == {c \in codes : m.keys[c] # KEY_DOWN}
  IN IF pressed = {} THEN m
     ELSE [m EXCEPT !.v[t] = CHOOSE c \in pressed : \A d \in pressed : c <= d,
                    !.blocked = FALSE]

\* The range-for over the map visits the codes in ascending order; every
\* key that is not KEY_DOWN overwrites v[target] and clears blocked.
RECURSIVE scan_keys(_, _, _)
scan_keys(m, t, codes) ==
  IF codes = {} THEN m
  ELSE LET code == CHOOSE c \in codes : \A d \in codes : c <= d
           m1 == IF m.keys[code] = KEY_DOWN THEN m
                 ELSE [m EXCEPT !.v[t] = code, !.blocked = FALSE]
       IN scan_keys(m1, t, codes \ {code})

\* Variant: the keys are never scanned.
op_LD_Vx_K_deaf(m, opcode) == Done([m EXCEPT !.blocked = TRUE])

\* Variant: a pressed key is stored but the blocked flag is not cleared.
op_LD_Vx_K_sticky(m, opcode) ==
  { [o EXCEPT !.m.blocked = TRUE] :
    o \in Done(scan_keys([m EXCEPT !.blocked = TRUE], target(opcode),
                         DOMAIN m.keys)) }

\* Variant: Vx is overwritten with 16 before the keys are scanned.
op_LD_Vx_K_clobber(m, opcode) ==
  Done(scan_keys([m EXCEPT !.blocked = TRUE, !.v[target(opcode)] = 16],
                 target(opcode), DOMAIN m.keys))

op_LD_Vx_K(m, opcode) ==
  Done(scan_keys([m EXCEPT !.blocked = TRUE], target(opcode), DOMAIN m.keys))

op_LD_DT(m, opcode) == Done([m EXCEPT !.dt = m.v[target(opcode)]])

op_LD_ST(m, opcode) == Done([m EXCEPT !.st = m.v[target(opcode)]])

op_ADD_I(m, opcode) == Done([m EXCEPT !.i = U16(m.i + m.v[target(opcode)])])

op_LD_F(m, opcode) == Done([m EXCEPT !.i = m.v[target(opcode)] * BYTES_PER_FONT])

op_LD_B(m, opcode) ==
  LET value == m.v[target(opcode)]
      hundreds == value \div 100
      tens == (value - hundreds * 100) \div 10
      ones == value - hundreds * 100 - tens * 10
      r1 == WriteRam(m.ram, m.i, hundreds)
      r2 == WriteRam(r1, m.i + 1, tens)
      r3 == WriteRam(r2, m.i + 2, ones)
      used == {m.i, m.i + 1, m.i + 2}
  IN {Outcome([m EXCEPT !.ram = r3], "none", used, \E idx \in used : ~InRam(idx))}

RECURSIVE store_loop(_, _, _, _)
store_loop(m, r, index, end) ==
  IF index > end THEN r
  ELSE store_loop(m, WriteRam(r, m.i + index, m.v[index]), index + 1, end)

op_LD_I_Vx(m, opcode) ==
  LET end == target(opcode)
      used == {m.i + index : index \in 0 .. end}
  IN {Outcome([m EXCEPT !.ram = store_loop(m, m.ram, 0, end)], "none", used,
              \E idx \in used : ~InRam(idx))}

\* The register files the loop v[index] = ram[i + index] can produce.
RECURSIVE load_loop(_, _, _, _)
load_loop(m, regs, index, end) ==
  IF index > end THEN {regs}
  ELSE UNION { load_loop(m, [regs EXCEPT ![index] = b], index + 1, end) :
               b \in ReadRam(m, m.i + index) }

op_LD_Vx_I(m, opcode) ==
  LET end == target(opcode)
      used == {m.i + index : index \in 0 .. end}
  IN { Outcome([m EXCEPT !.v = regs], "none", used, FALSE) :
       regs \in load_loop(m, m.v, 0, end) }

op_unknown(m) == Throw(m, "UnsupportedInstruction")

\* Variant: every other 0x0nnn word rejected as an unknown opcode.
group_0_strict(m, opcode) ==
  CASE opcode = 224 -> op_CLS(m)
    [] opcode = 238 -> op_RET(m)
    [] OTHER -> op_unknown(m)

group_0(m, opcode) ==
  CASE opcode = 224 -> op_CLS(m)
    [] opcode = 238 -> op_RET(m)
    [] OTHER -> op_SYS(m)

group_8(m, opcode) ==
  CASE nibble(opcode) = 0 -> op_LD_reg(m, opcode)
    [] nibble(opcode) = 1 -> op_OR(m, opcode)
    [] nibble(opcode) = 2 -> op_AND(m, opcode)
    [] nibble(opcode) = 3 -> op_XOR(m, opcode)
    [] nibble(opcode) = 4 -> op_ADD_reg(m, opcode)
    [] nibble(opcode) = 5 -> op_SUB(m, opcode)
    [] nibble(opcode) = 6 -> op_SHR(m, opcode)
    [] nibble(opcode) = 7 -> op_SUBN(m, opcode)
    [] nibble(opcode) = 14 -> op_SHL(m, opcode)
    [] OTHER -> op_unknown(m)

group_E(m, opcode) ==
  CASE low_byte(opcode) = 158 -> op_SKP(m, opcode)
    [] low_byte(opcode) = 161 -> op_SKNP(m, opcode)
    [] OTHER -> op_E_default(m, opcode)

group_F(m, opcode) ==
  CASE low_byte(opcode) = 7 -> op_LD_Vx_DT(m, opcode)
    [] low_byte(opcode) = 10 -> op_LD_Vx_K(m, opcode)
    [] low_byte(opcode) = 21 -> op_LD_DT(m, opcode)
    [] low_byte(opcode) = 24 -> op_LD_ST(m, opcode)
    [] low_byte(opcode) = 30 -> op_ADD_I(m, opcode)
    [] low_byte(opcode) = 41 -> op_LD_F(m, opcode)
    [] low_byte(opcode) = 51 -> op_LD_B(m, opcode)
    [] low_byte(opcode) = 85 -> op_LD_I_Vx(m, opcode)
    [] low_byte(opcode) = 101 -> op_LD_Vx_I(m, opcode)
    [] OTHER -> op_unknown(m)

execute(m, opcode) ==
  CASE kind(opcode) = 0 -> group_0(m, opcode)
    [] kind(opcode) = 1 -> op_JP(m, opcode)
    [] kind(opcode) = 2 -> op_CALL(m, opcode)
    [] kind(opcode) = 3 -> op_SE_byte(m, opcode)
    [] kind(opcode) = 4 -> op_SNE_byte(m, opcode)
    [] kind(opcode) = 5 -> op_SE_reg(m, opcode)
    [] kind(opcode) = 6 -> op_LD_byte(m, opcode)
    [] kind(opcode) = 7 -> op_ADD_byte(m, opcode)
    [] kind(opcode) = 8 -> group_8(m, opcode)
    [] kind(opcode) = 9 -> op_SNE_reg(m, opcode)
    [] kind(opcode) = 10 -> op_LD_I(m, opcode)
    [] kind(opcode) = 11 -> op_JP_V0(m, opcode)
    [] kind(opcode) = 12 -> op_RND(m, opcode)
    [] kind(opcode) = 13 -> op_DRW(m, opcode)
    [] kind(opcode) = 14 -> group_E(m, opcode)
    [] kind(opcode) = 15 -> group_F(m, opcode)
    [] OTHER -> op_unknown(m)

(***************************************************************************)
(* CPU::cycle: fetch, return on the zero word, execute, and rewind pc by 2 *)
(* when the instruction left the machine blocked.  An exception leaves     *)
(* cycle before the rewind.                                                *)
(***************************************************************************)
\* Variant: no rewind of pc after a blocked instruction.
rewind_skipped(o) == o

rewind(o) ==
  IF o.err = "none" /\ o.m.blocked
  THEN [o EXCEPT !.m.pc = U16(o.m.pc - 2)]
  ELSE o

cycle_body(m) ==
  UNION { IF f.opcode = 0
          THEN {[m |-> f.m, err |-> "none", used |-> f.used, wild |-> FALSE,
                 opcode |-> f.opcode]}
          ELSE { LET r == rewind(o)
                 IN [m |-> r.m, err |-> r.err, used |-> f.used \cup r.used,
                     wild |-> r.wild, opcode |-> f.opcode] :
                 o \in execute(f.m, f.opcode) } :
          f \in fetch_opcode(m) }

\* A read outside ram[] may also end the process instead of yielding a byte.
cycle(m) ==
  cycle_body(m) \cup
  { [o EXCEPT !.m = m, !.err = "Segfault"] :
    o \in {c \in cycle_body(m) : \E idx \in c.used : ~InRam(idx)} }

\* CPU::tick
\* Variant: timers decremented modulo 256 without the test for zero.
tick_wrapping(m) ==
  [m EXCEPT !.dt = U8(m.dt - 1), !.st = U8(m.st - 1)]

tick(m) ==
  LET m1 == IF m.dt > 0 THEN [m EXCEPT !.dt = m.dt - 1] ELSE m
  IN IF m1.st > 0 THEN [m1 EXCEPT !.st = m1.st - 1] ELSE m1

(***************************************************************************)
(* CPU::init and CPU::dump_into_memory.  vf is the byte found in v[0xf],   *)
(* which the memset of 0xf bytes does not reach.                           *)
(***************************************************************************)
\* memset(ram, 0) followed by memcpy(ram, fontset).
font_ram ==
  [idx \in 0 .. (RAM_SIZE - 1) |->
     IF idx < Len(fontset) THEN fontset[idx + 1] ELSE 0]

init(vf) ==
  [ram |-> font_ram,
   stack |-> << >>,
   v |-> [r \in 0 .. 15 |-> IF r < 15 THEN 0 ELSE vf],
   pc |-> PROGRAMS_OFFSET,
   i |-> 0,
   dt |-> 0,
   st |-> 0,
   blocked |-> FALSE,
   keys |-> [c \in 0 .. 15 |-> KEY_DOWN],
   framebuffer |-> {}]

\* The loop ram[pc + index] = byte over the bytes of the file.
RECURSIVE dump_loop(_, _, _, _)
dump_loop(r, base, rom, index) ==
  IF index >= Len(rom) THEN r
  ELSE dump_loop(WriteRam(r, base + index, rom[index + 1]), base, rom, index + 1)

dump_into_memory(m, rom) == [m EXCEPT !.ram = dump_loop(m.ram, m.pc, rom, 0)]

(***************************************************************************)
(* ROM images.  Words(ops) lays 16-bit opcodes out big-endian.             *)
(***************************************************************************)
RECURSIVE Words(_)
Words(ops) ==
  IF ops = << >> THEN << >>
  ELSE <<ops[1] \div 256, ops[1] % 256>> \o Words(Tail(ops))

\* 200: LD V3,K   202: ADD V3,1   204: JP 200
RomKeyWait == Words(<<\hF30A, \h7301, \h1200>>)
\* 200: CALL 206  202: CALL 20A  204: JP 204  206: CALL 20A  208: RET  20A: RET
RomCallRet == Words(<<\h2206, \h220A, \h1204, \h220A, \h00EE, \h00EE>>)
\* 200: CALL 200
RomRecurse == Words(<<\h2200>>)
\* 200: RET
RomRet == Words(<<\h00EE>>)
\* 200: CALL 202  202: RET  (returns to 202 and executes RET once more)
RomRetTwice == Words(<<\h2202, \h00EE>>)
\* 200: JP FFF / JP FFE
RomJumpLast == Words(<<\h1FFF>>)
RomJumpEnd == Words(<<\h1FFE>>)
\* 200: LD V0,EA  202: LD I,FFF  204: LD B,V0
RomBcdEnd == Words(<<\h60EA, \hAFFF, \hF033>>)
\* 200: LD I,FFF  202: LD [I],V1  204: LD V1,[I]  206: DRW V0,V0,2
RomBlockEnd == Words(<<\hAFFF, \hF155, \hF165, \hD002>>)
\* 200: LD V0,2  202: LD DT,V0  204: LD ST,V0  206: LD V1,DT  208: JP 206
RomTimers == Words(<<\h6002, \hF015, \hF018, \hF107, \h1206>>)

\* 200: LD V0,0A  202: ADD V0,05
RomAddImm == <<\h60, \h0A, \h70, \h05>>
\* 200: LD V0,EA  202: LD I,300  204: LD B,V0
RomBcd == Words(<<\h60EA, \hA300, \hF033>>)

\* 200: LD V3,05  202: LD DT,V3  204: LD I,000  206: DRW V3,V3,5
\* 208: LD V3,K
RomKeyWaitBusy == Words(<<\h6305, \hF315, \hA000, \hD335, \hF30A>>)

\* 200: LD V0,01  202: LD V1,0F  204: SKP V0  206: SKNP V0  208: SKP V1
\* 20A: SKNP V1  20C: JP 204  20E: JP 204
RomKeySkips ==
  Words(<<\h6001, \h610F, \hE09E, \hE0A1, \hE19E, \hE1A1, \h1204, \h1204>>)

\* 200: LD V0,FF  202: SKP V0  204: JP 202
RomKeyInsert == Words(<<\h60FF, \hE09E, \h1202>>)

Roms == {RomKeyWait, RomCallRet, RomRecurse, RomRet, RomRetTwice, RomJumpLast,
         RomJumpEnd, RomBcdEnd, RomBlockEnd, RomTimers, RomAddImm, RomBcd,
         RomKeyInsert, RomKeyWaitBusy, RomKeySkips}

\* Register values, register pairs and 8xyn nibbles of the instruction runs.
ByteSamples == {0, 1, 2, 127, 128, 254, 255}
RegPairs == {<<0, 1>>, <<1, 1>>, <<15, 1>>, <<1, 15>>, <<15, 15>>}
AluNibbles == {4, 5, 6, 7, 14}

\* LD Vx,a ; LD Vy,b ; 8xyn
AluRom(x, y, a, b, n) == <<96 + x, a, 96 + y, b, 128 + x, 16 * y + n>>

\* One-instruction ROMs: every nibble of groups 8, 5 and 9 on the register
\* pairs, every low byte of groups E and F on V0 and VF, and 0x0nnn words.
ProbeRegs == {0, 15}
SysWords == (0 .. 255) \cup {\h100, \h2E0, \hEE0, \hFFF}
ProbeOpcodes ==
  { k * 4096 + p[1] * 256 + p[2] * 16 + n :
      k \in {5, 8, 9}, p \in RegPairs, n \in 0 .. 15 }
  \cup { k * 4096 + x * 256 + nn : k \in {14, 15}, x \in ProbeRegs, nn \in 0 .. 255 }
  \cup SysWords

\* LD Vx,a  LD Vy,b  and one of SE Vx,b / SNE Vx,b / SE Vx,Vy / SNE Vx,Vy
SkipBytes == {0, 1, 255}
SkipKinds == {3, 4, 5, 9}
SkipRom(x, y, a, b, k) ==
  Words(<<\h6000 + x * 256 + a, \h6000 + y * 256 + b,
          IF k \in {3, 4} THEN k * 4096 + x * 256 + b
          ELSE k * 4096 + x * 256 + y * 16>>)

\* DRW with VF as a coordinate register, twice in a row.
DrawFlagRoms ==
  { Words(<<\hDFF5, \hDFF5>>), Words(<<\hD0F1, \hD0F1>>),
    Words(<<\hDF01, \hDF01>>) }

\* 200: LD V0,FF  202: an undefined opcode of group 0xE
RomKeyFault == Words(<<\h60FF, \hE000>>)

IsaRoms ==
  { AluRom(p[1], p[2], a, b, n) :
      p \in RegPairs, a \in ByteSamples, b \in ByteSamples, n \in AluNibbles }
  \cup { <<hi, lo>> : hi \in ByteSamples, lo \in ByteSamples }
  \cup { Words(<<opcode>>) : opcode \in ProbeOpcodes }
  \cup DrawFlagRoms \cup {RomKeyFault}
  \cup { SkipRom(p[1], p[2], a, b, k) :
           p \in RegPairs, a \in SkipBytes, b \in SkipBytes, k \in SkipKinds }

\* LD V0,a ; LD V1,b ; LD I,000 ; DRW V0,V1,n three times ; LD I,005 ;
\* DRW V0,V1,n.  ram[0..] holds the font glyphs.
DrawXs == {0, 60, 63, 255}
DrawYs == {0, 30, 255}
DrawRows == {0, 1, 5, 15}
DrawRom(a, b, n) ==
  Words(<<\h6000 + a, \h6100 + b, \hA000, \hD010 + n, \hD010 + n,
          \hD010 + n, \hA005, \hD010 + n>>)
GpuRoms == { DrawRom(a, b, n) : a \in DrawXs, b \in DrawYs, n \in DrawRows }

\* The codes main() can pass to keys: get_key_code yields 0x0..0xf, or -1,
\* which converts to the uint8_t key 255.
WaitRoms == {RomKeyWait, RomKeyWaitBusy}

\* LD V0,a  LD V1,b  LD DT,V0  LD ST,V1  LD V2,DT  JP 208
CountBytes == {0, 1, 3}
CountRom(a, b) ==
  Words(<<\h6000 + a, \h6100 + b, \hF015, \hF118, \hF207, \h1208>>)
CountRoms == { CountRom(a, b) : a \in CountBytes, b \in CountBytes }

\* LD V0,a  LD V1,b  LD DT,V0  LD ST,V1
TimerBytes == {0, 1, 2, 255}
TimerRom(a, b) == Words(<<\h6000 + a, \h6100 + b, \hF015, \hF118>>)
TimerRoms == { TimerRom(a, b) : a \in TimerBytes, b \in TimerBytes }

HostKeyCodes == {1, 15, 255}

(***************************************************************************)
(* The state machine.                                                      *)
(***************************************************************************)
\* For each timer, the value n that LD DT,Vx / LD ST,Vx last wrote to it and
\* the number k of ticks since then, counted up to MaxTicks; Unloaded until
\* the program writes the timer.
Unloaded == [n |-> 0, k |-> MaxTicks]

\* main after processor.init(): no ROM in memory yet.
Init ==
  \E vf \in UninitBytes :
    LET m == init(vf)
    IN /\ ram = m.ram
       /\ stack = m.stack
       /\ v = m.v
       /\ pc = m.pc
       /\ i = m.i
       /\ dt = m.dt
       /\ st = m.st
       /\ blocked = m.blocked
       /\ keys = m.keys
       /\ framebuffer = m.framebuffer
       /\ status = "initialised"
       /\ err = "none"
       /\ last = [at |-> 0, opcode |-> 0, used |-> {}, fb |-> {}]
       /\ calls = << >>
       /\ ncycles = 0
       /\ nevents = 0
       /\ since = [dt |-> Unloaded, st |-> Unloaded]

Install(m) ==
  /\ ram' = m.ram
  /\ stack' = m.stack
  /\ v' = m.v
  /\ pc' = m.pc
  /\ i' = m.i
  /\ dt' = m.dt
  /\ st' = m.st
  /\ blocked' = m.blocked
  /\ keys' = m.keys
  /\ framebuffer' = m.framebuffer

\* processor.dump_into_memory(file_path) for one of the ROM files.
LoadFrom(roms) ==
  /\ \E rom \in roms : ram' = dump_into_memory(Machine, rom).ram
  /\ status' = "running"
  /\ UNCHANGED <<stack, v, pc, i, dt, st, blocked, keys, framebuffer,
                 err, last, calls, ncycles, nevents, since>>

Load ==
  /\ status = "initialised"
  /\ LoadFrom(Roms)

LoadISA ==
  /\ status = "initialised"
  /\ LoadFrom(IsaRoms)

LoadGPU ==
  /\ status = "initialised"
  /\ LoadFrom(GpuRoms)

\* The frames opened by CALL and not yet closed by RET: return address and
\* the stack as it was before the CALL.
Frames(o) ==
  IF o.err # "none" THEN calls
  ELSE IF kind(o.opcode) = 2
       THEN Append(calls, [ret |-> U16(pc + OPCODE_SPAN), before |-> stack])
  ELSE IF o.opcode = 238 /\ Len(calls) > 0 THEN Pop(calls)
  ELSE calls

Loads(o) ==
  IF o.err # "none" \/ kind(o.opcode) # 15 THEN since
  ELSE IF low_byte(o.opcode) = \h15
       THEN [since EXCEPT !.dt = [n |-> v[target(o.opcode)], k |-> 0]]
  ELSE IF low_byte(o.opcode) = \h18
       THEN [since EXCEPT !.st = [n |-> v[target(o.opcode)], k |-> 0]]
  ELSE since

\* One call of processor.cycle() in the loop of main.  An exception is not
\* caught by main and ends the process (status "terminated"); a read outside
\* ram[] may end it too ("crashed"); after a write outside ram[] the
\* behaviour of the build is undefined and the run is followed no further
\* ("undefined").
Step ==
  /\ status = "running"
  /\ \E o \in cycle(Machine) :
       /\ Install(o.m)
       /\ err' = o.err
       /\ status' = IF o.err = "Segfault" THEN "crashed"
                    ELSE IF o.err # "none" THEN "terminated"
                    ELSE IF o.wild THEN "undefined"
                    ELSE "running"
       /\ last' = [at |-> pc, opcode |-> o.opcode, used |-> o.used,
                   fb |-> framebuffer]
       /\ calls' = Frames(o)
       /\ since' = Loads(o)
  /\ ncycles' = ncycles + 1
  /\ UNCHANGED nevents

Cycle ==
  /\ ncycles < MaxCycles
  /\ Step

CycleISA ==
  /\ ncycles < MaxIsaCycles
  /\ Step

CycleGPU ==
  /\ ncycles < MaxGpuCycles
  /\ Step

LoadTimer ==
  /\ status = "initialised"
  /\ LoadFrom(TimerRoms)

CycleTimer ==
  /\ ncycles < MaxTimerCycles
  /\ Step

LoadWait ==
  /\ status = "initialised"
  /\ LoadFrom(WaitRoms)

CycleWait ==
  /\ ncycles < MaxWaitCycles
  /\ Step

LoadCountdown ==
  /\ status = "initialised"
  /\ LoadFrom(CountRoms)

CycleCountdown ==
  /\ ncycles < MaxCountCycles
  /\ Step

\* The timer branch of the loop of main.
Tick ==
  /\ status = "running"
  /\ Install(tick(Machine))
  /\ since' = [t \in {"dt", "st"} |->
                 [since[t] EXCEPT !.k = IF @ < MaxTicks THEN @ + 1 ELSE @]]
  /\ UNCHANGED <<status, err, last, calls, ncycles, nevents>>

\* case sf::Event::KeyPressed
KeyPressed ==
  /\ status = "running"
  /\ nevents < MaxKeyEvents
  /\ \E key_code \in HostKeyCodes :
       /\ key_code \in DOMAIN keys
       /\ keys' = [keys EXCEPT ![key_code] = KEY_UP]
  /\ nevents' = nevents + 1
  /\ UNCHANGED <<ram, stack, v, pc, i, dt, st, blocked, framebuffer,
                 status, err, last, calls, ncycles, since>>

\* case sf::Event::KeyReleased
KeyReleased ==
  /\ status = "running"
  /\ nevents < MaxKeyEvents
  /\ \E key_code \in HostKeyCodes :
       /\ key_code \in DOMAIN keys
       /\ keys' = [keys EXCEPT ![key_code] = KEY_DOWN]
  /\ nevents' = nevents + 1
  /\ UNCHANGED <<ram, stack, v, pc, i, dt, st, blocked, framebuffer,
                 status, err, last, calls, ncycles, since>>

Next == Load \/ Cycle \/ Tick \/ KeyPressed \/ KeyReleased
Spec == Init /\ [][Next]_vars

NextISA == LoadISA \/ CycleISA
SpecISA == Init /\ [][NextISA]_vars

NextGPU == LoadGPU \/ CycleGPU
SpecGPU == Init /\ [][NextGPU]_vars

NextTimer == LoadTimer \/ CycleTimer \/ Tick
SpecTimer == Init /\ [][NextTimer]_vars

\* The loop of main calls processor.cycle() on every iteration: cycles keep
\* being run for as long as the cycle budget lasts.
NextCountdown == LoadCountdown \/ CycleCountdown \/ Tick
SpecCountdown == Init /\ [][NextCountdown]_vars

\* CycleRuns holds of the steps of NextWait that are CycleWait steps and is
\* enabled exactly when CycleWait is: cycle() yields an outcome in every
\* state of a running program.
CycleRuns ==
  /\ status = "running"
  /\ ncycles < MaxWaitCycles
  /\ ncycles' = ncycles + 1

NextWait == LoadWait \/ CycleWait \/ Tick \/ KeyPressed \/ KeyReleased
SpecWait == Init /\ [][NextWait]_vars /\ WF_ncycles(CycleRuns)

(***************************************************************************)
(* Vocabulary of the properties.  A step is a cycle exactly when ncycles   *)
(* grows; last' then holds the fetch address, the fetched opcode, the      *)
(* memory indices used and the frame buffer as it was before the cycle.    *)
(***************************************************************************)
IsCycle == ncycles' = ncycles + 1
Ran == IsCycle /\ err' # "Segfault"
FetchInRam == InRam(pc) /\ InRam(pc + 1)
Fetched == last'.opcode
Alu(n) == Ran /\ kind(Fetched) = 8 /\ nibble(Fetched) = n
X == target(Fetched)
Y == source(Fetched)
Pressed == {c \in DOMAIN keys : keys[c] # KEY_DOWN}
Flag(cond) == IF cond THEN 1 ELSE 0

\* C1: a cycle that fetches Fx0A while no key is pressed ends with PC back at
\* the fetch address, the machine blocked and registers and memory as they
\* were, so the next cycle fetches the same instruction; once the ROM is
\* loaded, steps of the host other than cycle() move neither PC nor memory.  The first cycle that
\* fetches it while a key is pressed puts a pressed key's code in Vx, ends
\* with PC = A + 2 and not blocked, and every cycle fetches at the current PC.
C1_KeyWait ==
  [][ /\ (Ran /\ kind(Fetched) = 15 /\ low_byte(Fetched) = 10) =>
           IF Pressed = {}
           THEN pc' = pc /\ blocked' /\ v' = v /\ ram' = ram
           ELSE v'[X] \in Pressed /\ pc' = U16(pc + 2) /\ ~blocked'
      /\ IsCycle => last'.at = pc
      /\ (~IsCycle /\ status = "running") =>
           (pc' = pc /\ ram' = ram /\ blocked' = blocked) ]_vars

\* Two blocked cycles at 0x200, then key F pressed and the third cycle
\* completes LD V3,K.
C1_Witness ==
  /\ last.opcode = \hF30A /\ last.at = \h200 /\ ncycles = 3
  /\ ~blocked /\ pc = \h202 /\ v[3] = 15 /\ keys[15] = KEY_UP

\* C2: a CALL nnn fetched at A pushes A + 2 and sets PC = nnn; the RET that
\* closes it sets PC to exactly A + 2 and leaves the stack as it was before
\* that CALL, whatever balanced CALL/RET pairs ran in between.
C2_CallRet ==
  [][ (Ran /\ err' = "none") =>
        /\ kind(Fetched) = 2 =>
             (stack' = Append(stack, U16(last'.at + 2)) /\ pc' = address(Fetched))
        /\ Fetched = \h00EE =>
             /\ Len(calls) > 0
             /\ pc' = Top(calls).ret
             /\ stack' = Top(calls).before ]_vars

\* The RET at 0x208 closes the CALL fetched at 0x200, after the nested pair
\* CALL 20A (at 0x206) / RET (at 0x20A).
C2_Witness ==
  /\ last.opcode = \h00EE /\ last.at = \h208 /\ err = "none"
  /\ pc = \h202 /\ stack = << >> /\ ncycles = 4

\* C3: the stack never holds more than 16 return addresses; a CALL with fewer
\* than 16 entries on the stack succeeds and pushes one, a CALL with 16
\* entries fails with StackOverflow and pushes nothing.
C3_StackCapacity ==
  /\ [](Len(stack) <= 16)
  /\ [][ (Ran /\ kind(Fetched) = 2) =>
           IF Len(stack) < 16
           THEN err' = "none" /\ Len(stack') = Len(stack) + 1
           ELSE err' = "StackOverflow" /\ stack' = stack ]_vars

C3_Witness ==
  /\ err = "StackOverflow" /\ Len(stack) = 16 /\ ncycles = 17
  /\ kind(last.opcode) = 2

\* C4: RET with an empty stack fails with StackUnderflow; the stack is still
\* empty and PC is the fetch address plus 2, not a popped value.
C4_RetEmpty ==
  [][ (Ran /\ Fetched = \h00EE /\ stack = << >>) =>
        /\ err' = "StackUnderflow"
        /\ status' = "terminated"
        /\ stack' = << >>
        /\ pc' = U16(last'.at + 2) ]_vars

\* The second RET of CALL 202 / RET / RET.
C4_Witness ==
  /\ err = "StackUnderflow" /\ last.opcode = \h00EE /\ stack = << >>
  /\ ncycles = 3

\* C5: after 8xy4, VF = 1 iff Vx + Vy > 255, and Vx = (Vx + Vy) mod 256
\* (stated for x other than F, where VF is the register written last).
C5_AddCarry ==
  [][ Alu(4) =>
        /\ v'[15] = Flag(v[X] + v[Y] > 255)
        /\ X # 15 => v'[X] = U8(v[X] + v[Y]) ]_vars

\* C6 as claimed: after 8xy5, VF = 1 iff Vx >= Vy before, and Vx is
\* (Vx - Vy) mod 256, for every x.
C6_SubAnyX ==
  [][ Alu(5) =>
        /\ v'[15] = Flag(v[X] >= v[Y])
        /\ v'[X] = U8(v[X] - v[Y]) ]_vars

\* C6: after 8xy5, VF = 1 iff Vx >= Vy held before the subtraction, and for
\* x other than F, Vx is (Vx - Vy) mod 256; with x = F the register holds
\* the flag.
C6_Sub ==
  [][ Alu(5) =>
        /\ v'[15] = Flag(v[X] >= v[Y])
        /\ X # 15 => v'[X] = U8(v[X] - v[Y]) ]_vars

\* SUB V0,V1 with V0 = 0, V1 = 1: borrow, result wraps to 255.
C6_Witness ==
  /\ last.opcode = \h8015 /\ ncycles = 3 /\ v[0] = 255 /\ v[1] = 1 /\ v[15] = 0

\* C7: after 8xy7, VF = 1 iff Vy >= Vx held before the instruction, and Vx is
\* (Vy - Vx) mod 256 of the values before it (stated for x other than F).
C7_Subn ==
  [][ Alu(7) =>
        /\ v'[15] = Flag(v[Y] >= v[X])
        /\ X # 15 => v'[X] = U8(v[Y] - v[X]) ]_vars

\* C8 as claimed: 8xy6 leaves VF = bit 0 of the old Vx and Vx = old Vx div 2;
\* 8xyE leaves VF = bit 7 of the old Vx and Vx = (2 * old Vx) mod 256, for
\* every x.
C8_ShiftAnyX ==
  [][ /\ Alu(6) => (v'[15] = Bit(v[X], 0) /\ v'[X] = v[X] \div 2)
      /\ Alu(14) => (v'[15] = Bit(v[X], 7) /\ v'[X] = U8(2 * v[X])) ]_vars

\* C8: 8xy6 leaves VF = bit 0 of the old Vx and 8xyE leaves VF = bit 7 of the
\* old Vx; for x other than F, Vx is old Vx div 2, respectively
\* (2 * old Vx) mod 256; with x = F the register holds the flag.
C8_Shift ==
  [][ /\ Alu(6) => /\ v'[15] = Bit(v[X], 0)
                   /\ X # 15 => v'[X] = v[X] \div 2
      /\ Alu(14) => /\ v'[15] = Bit(v[X], 7)
                    /\ X # 15 => v'[X] = U8(2 * v[X]) ]_vars

\* SHL V0 with V0 = 255: bit 7 goes to VF, V0 becomes 254.
C8_Witness ==
  /\ last.opcode = \h801E /\ ncycles = 3 /\ v[0] = 254 /\ v[15] = 1

\* C9: when both bytes of the fetch lie in memory, the fetched opcode is
\* ram[PC] * 256 + ram[PC + 1], and the fetch changes nothing but PC, which
\* grows by exactly 2.
C9_Fetch ==
  [][ (Ran /\ FetchInRam) =>
        /\ Fetched = ram[pc] * 256 + ram[pc + 1]
        /\ \A f \in fetch_opcode(Machine) :
             /\ f.opcode = ram[pc] * 256 + ram[pc + 1]
             /\ f.m = [Machine EXCEPT !.pc = pc + 2] ]_vars

\* The ROM FF FE: the cycle at 0x200 fetched 0xFFFE.
C9_Witness ==
  /\ last.at = \h200 /\ last.opcode = \hFFFE /\ ncycles = 1
  /\ ram[\h200] = 255 /\ ram[\h201] = 254

\* C10: every memory index a cycle uses (fetch, sprite rows, BCD digits,
\* register block) lies in 0..4095.
C10_MemoryBounds == \A idx \in last.used : InRam(idx)

(***************************************************************************)
(* DRW.  The sprite of a DRW is the Rows bytes at ram[i ..]; Claimed is    *)
(* the set of pixels the instruction table assigns to its set bits, column *)
(* 0 being the most significant bit of a row.                              *)
(***************************************************************************)
IsDraw == Ran /\ kind(Fetched) = 13
Rows == nibble(Fetched)
SpriteInRam == \A r \in 0 .. (Rows - 1) : InRam(i + r)
HasSetBit == \E r \in 0 .. (Rows - 1) : ram[i + r] # 0
Claimed ==
  { <<(v[X] + col) % WIDTH, (v[Y] + r) % HEIGHT>> :
      <<r, col>> \in { rc \in (0 .. (Rows - 1)) \X (0 .. 7) :
                         Bit(ram[i + rc[1]], 7 - rc[2]) = 1 } }
SameDrawAgain ==
  /\ IsDraw /\ SpriteInRam /\ HasSetBit
  /\ last.opcode = Fetched /\ err = "none"
  /\ X # 15 /\ Y # 15

\* C11 as claimed: a DRW that repeats the DRW of the cycle before (same
\* sprite, same Vx, Vy) restores the display to what it was before the first
\* of the two, and reports collision, whatever the display was.
C11_DrawTwiceAnyDisplay ==
  [][ SameDrawAgain => (framebuffer' = last.fb /\ v'[15] = 1) ]_vars

\* C11: a DRW that repeats the DRW of the cycle before restores the display
\* to what it was before the first of the two; it reports collision exactly
\* when the first draw turned at least one pixel on, as it does on a clear
\* display.
C11_DrawTwice ==
  [][ SameDrawAgain =>
        /\ framebuffer' = last.fb
        /\ v'[15] = Flag(framebuffer \ last.fb # {})
        /\ last.fb = {} => v'[15] = 1 ]_vars

\* Glyph "0" drawn twice at (60, 30) on a clear display: wraps on both axes,
\* the display is clear again and VF = 1.
C11_Witness ==
  /\ last.opcode = \hD015 /\ ncycles = 5 /\ v[0] = 60 /\ v[1] = 30
  /\ last.fb # {} /\ framebuffer = {} /\ v[15] = 1

\* C12: DRW Vx,Vy,n uses ram[I .. I+n-1]; each set bit (row r, column col,
\* column 0 the most significant bit) toggles pixel ((Vx+col) mod 64,
\* (Vy+r) mod 32) and nothing else; VF = 1 iff a toggled pixel was on.
C12_DrawMapping ==
  [][ (IsDraw /\ SpriteInRam) =>
        /\ last'.used = {pc, pc + 1} \cup {i + r : r \in 0 .. (Rows - 1)}
        /\ framebuffer' = (framebuffer \ Claimed) \cup (Claimed \ framebuffer)
        /\ v'[15] = Flag(Claimed \cap framebuffer # {}) ]_vars

\* The ROM 60 0A 70 05 is in memory and exactly two cycles have run.
AddImmRanTwice ==
  /\ status = "running" /\ ncycles = 2
  /\ <<ram[\h200], ram[\h201], ram[\h202], ram[\h203]>> = RomAddImm

\* C13 as claimed: after init, the program 60 0A 70 05 and two cycles,
\* V0 = 15 and PC = 4.
C13_PcFour == AddImmRanTwice => (v[0] = 15 /\ pc = 4)

\* C13: after init, the program 60 0A 70 05 and two cycles, V0 = 15 and PC is
\* the load offset 0x200 plus 4.
C13_EndToEnd == AddImmRanTwice => (v[0] = 15 /\ pc = PROGRAMS_OFFSET + 4)

C13_Witness == AddImmRanTwice /\ v[0] = 15 /\ pc = \h204 /\ last.opcode = \h7005

\* C14: Fx33 writes Vx div 100, (Vx div 10) mod 10 and Vx mod 10 to
\* memory[I], memory[I+1], memory[I+2], for every I, and changes no other
\* memory cell, no register and not I.
C14_Bcd ==
  [][ (Ran /\ kind(Fetched) = 15 /\ low_byte(Fetched) = \h33) =>
        /\ InRam(i) /\ InRam(i + 1) /\ InRam(i + 2)
        /\ ram' = [ram EXCEPT ![i] = v[X] \div 100,
                              ![i + 1] = (v[X] \div 10) % 10,
                              ![i + 2] = v[X] % 10]
        /\ 100 * ram'[i] + 10 * ram'[i + 1] + ram'[i + 2] = v[X]
        /\ v' = v /\ i' = i ]_vars

\* C15: 8xyn with n outside {0..7, E}, Exnn with nn outside {9E, A1} and Fxnn
\* with nn outside {07, 0A, 15, 18, 1E, 29, 33, 55, 65} fail with
\* UnsupportedInstruction; 0x0nnn other than 0000, 00E0 and 00EE completes
\* and changes nothing but PC, which ends at the fetch address plus 2.
C15_Unsupported ==
  [][ Ran =>
        /\ (kind(Fetched) = 8 /\ nibble(Fetched) \notin (0 .. 7) \cup {14}) =>
             (err' = "UnsupportedInstruction" /\ status' = "terminated")
        /\ (kind(Fetched) = 14 /\ low_byte(Fetched) \notin {\h9E, \hA1}) =>
             (err' = "UnsupportedInstruction" /\ status' = "terminated")
        /\ (kind(Fetched) = 15 /\ low_byte(Fetched) \notin
              {\h07, \h0A, \h15, \h18, \h1E, \h29, \h33, \h55, \h65}) =>
             (err' = "UnsupportedInstruction" /\ status' = "terminated")
        /\ (kind(Fetched) = 0 /\ Fetched \notin {\h0000, \h00E0, \h00EE}) =>
             /\ err' = "none" /\ status' = "running"
             /\ pc' = U16(last'.at + 2)
             /\ UNCHANGED <<ram, stack, v, i, dt, st, blocked, keys,
                            framebuffer>> ]_vars

\* SYS 2E0 ran as a no-op.
C15_Witness ==
  /\ last.opcode = \h02E0 /\ last.at = \h200 /\ ncycles = 1
  /\ err = "none" /\ pc = \h202 /\ status = "running"

\* C16: a cycle that fetches 5xyn or 9xyn with n other than 0 fails with
\* UnsupportedInstruction.
C16_SkipRegNibble ==
  [][ (Ran /\ kind(Fetched) \in {5, 9} /\ nibble(Fetched) # 0) =>
        err' = "UnsupportedInstruction" ]_vars

\* C17: a cycle that fetches the word 0x0000 leaves PC, the registers, I, the
\* stack, memory, the timers, the blocked flag and the display unchanged.
C17_Sentinel ==
  [][ (Ran /\ FetchInRam /\ Fetched = 0) =>
        UNCHANGED <<pc, v, i, stack, ram, dt, st, blocked, framebuffer>> ]_vars

\* A step of the timer branch: the program runs, no cycle and no key event.
IsTick == status = "running" /\ ncycles' = ncycles /\ nevents' = nevents

\* C18: tick sets DT' = DT - 1 if DT > 0 else 0 and ST' = ST - 1 if ST > 0
\* else 0, each independently of the other, and changes no register, not I,
\* PC, the stack, memory, the keypad or the blocked flag.
C18_Tick ==
  [][ IsTick =>
        /\ dt' = (IF dt > 0 THEN dt - 1 ELSE 0)
        /\ st' = (IF st > 0 THEN st - 1 ELSE 0)
        /\ UNCHANGED <<ram, stack, v, pc, i, blocked, keys, framebuffer>> ]_vars

\* DT was 1 and ST 255: after two ticks DT stays at 0 while ST went on to 253.
C18_Witness ==
  /\ ncycles = 4 /\ v[0] = 1 /\ v[1] = 255 /\ last.opcode = \hF118
  /\ dt = 0 /\ st = 253

\* C19: after init(), memory[0..79] is the font table, memory[80..4095] is
\* zero, PC = 0x200, I = 0, V0..VF are 0, DT = ST = 0, the blocked flag is
\* false and the 16 keys 0x0..0xF are released.
C19_InitialState ==
  status = "initialised" =>
    /\ \A a \in 0 .. 79 : ram[a] = fontset[a + 1]
    /\ \A a \in 80 .. RAM_SIZE - 1 : ram[a] = 0
    /\ pc = \h200 /\ i = 0
    /\ \A x \in 0 .. 15 : v[x] = 0
    /\ dt = 0 /\ st = 0
    /\ blocked = FALSE
    /\ keys = [code \in 0 .. 15 |-> KEY_DOWN]

\* C20: a cycle leaves the keypad unchanged, only host key events change it,
\* and the keypad always maps exactly the 16 codes 0x0..0xF.
C20_KeypadReadOnly ==
  [][ /\ IsCycle => keys' = keys
      /\ keys' # keys => nevents' = nevents + 1
      /\ DOMAIN keys' = 0 .. 15 ]_vars

IsKeyWait(opcode) == kind(opcode) = 15 /\ low_byte(opcode) = \h0A
WordAt(mem, a) == mem[a] * 256 + mem[a + 1]

\* C21: the blocked flag is true after a cycle only if that cycle fetched an
\* Fx0A while no key was pressed; a cycle that starts blocked fetches an
\* Fx0A, a cycle that ends blocked leaves PC on that Fx0A, and a cycle of any
\* other instruction ends not blocked, hence without the PC rewind.
C21_OnlySuspension ==
  [][ IsCycle =>
        /\ blocked' => (Ran /\ IsKeyWait(Fetched) /\ Pressed = {})
        /\ blocked => (FetchInRam /\ IsKeyWait(WordAt(ram, pc)))
        /\ blocked' => (pc' = last'.at /\ IsKeyWait(WordAt(ram', pc')))
        /\ (Ran /\ ~IsKeyWait(Fetched)) => ~blocked' ]_vars

\* After the draw, LD V3,K at 0x208 found no key and the engine is blocked.
C21_Witness ==
  /\ blocked /\ last.opcode = \hF30A /\ last.at = \h208 /\ pc = \h208
  /\ ncycles = 5 /\ Pressed = {}

\* C22: a cycle that executes Fx0A with no key pressed leaves PC, all
\* registers, I, the stack, memory, DT, ST, the keypad and the display as
\* they were before the cycle and ends blocked, so the same cycle runs again.
C22_BlockedIdempotent ==
  [][ (Ran /\ IsKeyWait(Fetched) /\ Pressed = {}) =>
        /\ UNCHANGED <<pc, v, i, stack, ram, dt, st, keys, framebuffer>>
        /\ blocked' ]_vars

\* The third blocked cycle in a row at 0x208, with V3 = 5, a timer running
\* and the glyph on the display.
C22_Witness ==
  /\ blocked /\ last.opcode = \hF30A /\ last.at = \h208 /\ ncycles = 7
  /\ pc = \h208 /\ v[3] = 5 /\ dt = 3 /\ framebuffer # {} /\ Pressed = {}

\* C23: with host key events interleaved between the cycles, a cycle run
\* while blocked ends blocked if all keys are released and not blocked if
\* some key is pressed, and only such a cycle unblocks; when cycles keep
\* being run, a blocked engine with a key pressed leaves the blocked state
\* unless the key is released before the next cycle.
C23_KeyWaitInterleaved ==
  /\ [][ (Ran /\ blocked) => (blocked' <=> Pressed = {}) ]_vars
  /\ [][ (blocked /\ ~blocked') => (IsCycle /\ Pressed # {}) ]_vars
  /\ (blocked /\ Pressed # {} /\ ncycles < MaxWaitCycles)
       ~> (~blocked \/ Pressed = {})

\* Three blocked cycles, key 1 pressed, and the fourth cycle unblocks.
C23_Witness ==
  /\ ~blocked /\ last.opcode = \hF30A /\ last.at = \h200 /\ ncycles = 4
  /\ pc = \h202 /\ v[3] = 1 /\ keys[1] = KEY_UP /\ nevents = 1

\* The condition of the skip instruction fetched by the step.
SkipCondition ==
  CASE kind(Fetched) = 3 -> v[X] = low_byte(Fetched)
    [] kind(Fetched) = 4 -> v[X] # low_byte(Fetched)
    [] kind(Fetched) = 5 -> v[X] = v[Y]
    [] kind(Fetched) = 9 -> v[X] # v[Y]

\* C24: for 3xkk, 4xkk, 5xy0 and 9xy0 fetched at A, PC after the cycle is
\* A + 4 if the condition holds (Vx == kk, Vx != kk, Vx == Vy, Vx != Vy) and
\* A + 2 otherwise; no register, I, stack or memory cell changes.
C24_Skips ==
  [][ (/\ Ran /\ FetchInRam
       /\ \/ kind(Fetched) \in {3, 4}
          \/ kind(Fetched) \in {5, 9} /\ nibble(Fetched) = 0) =>
        /\ pc' = last'.at + (IF SkipCondition THEN 4 ELSE 2)
        /\ last'.at = pc
        /\ UNCHANGED <<v, i, stack, ram>> ]_vars

\* SNE V0,FF at 0x204 with V0 = 1 skipped to 0x208.
C24_Witness ==
  /\ last.opcode = \h40FF /\ last.at = \h204 /\ pc = \h208 /\ v[0] = 1
  /\ ncycles = 3

\* C25: for Vx in 0x0..0xF and every keypad state, Ex9E fetched at A ends
\* with PC = A + 4 iff key Vx is pressed (else A + 2) and ExA1 ends with
\* PC = A + 4 iff key Vx is released (else A + 2); a key is either pressed or
\* released, so exactly one of the two skips.
C25_KeypadSkips ==
  [][ (Ran /\ FetchInRam /\ kind(Fetched) = 14 /\ v[X] \in 0 .. 15) =>
        /\ low_byte(Fetched) = \h9E =>
             pc' = last'.at + (IF keys[v[X]] = KEY_UP THEN 4 ELSE 2)
        /\ low_byte(Fetched) = \hA1 =>
             pc' = last'.at + (IF keys[v[X]] = KEY_DOWN THEN 4 ELSE 2)
        /\ (keys[v[X]] = KEY_UP) # (keys[v[X]] = KEY_DOWN)
        /\ last'.at = pc ]_vars

\* SKP V1 at 0x208 skipped to 0x20C while key F was pressed.
C25_Witness ==
  /\ last.opcode = \hE19E /\ last.at = \h208 /\ pc = \h20C /\ v[1] = 15
  /\ keys[15] = KEY_UP

\* C26: Fx55 writes memory[I+k] = Vk for every k in 0..x and changes no other
\* memory cell; Fx65 sets Vk = memory[I+k] for every k in 0..x and changes no
\* register above x; both leave I unchanged (so Fx65 after Fx55 with the
\* same x and I reads back the V0..Vx that were stored).
C26_BlockStoreLoad ==
  [][ (Ran /\ kind(Fetched) = 15) =>
        /\ low_byte(Fetched) = \h55 =>
             /\ \A k \in 0 .. X : InRam(i + k)
             /\ ram' = [a \in 0 .. RAM_SIZE - 1 |->
                          IF a \in i .. i + X THEN v[a - i] ELSE ram[a]]
             /\ v' = v /\ i' = i
        /\ low_byte(Fetched) = \h65 =>
             /\ \A k \in 0 .. X : InRam(i + k)
             /\ v' = [k \in 0 .. 15 |-> IF k <= X THEN ram[i + k] ELSE v[k]]
             /\ ram' = ram /\ i' = i ]_vars

Max(a, b) == IF a >= b THEN a ELSE b

\* C27: k ticks after LD DT,Vx or LD ST,Vx wrote n to a timer, with no
\* further write to it and whatever cycles ran in between, the timer equals
\* max(n - k, 0): it is 0 from the n-th tick on.  LD Vx,DT puts the current
\* DT in Vx and changes neither timer.
C27_Countdown ==
  [][ /\ since'.dt.k < MaxTicks => dt' = Max(since'.dt.n - since'.dt.k, 0)
      /\ since'.st.k < MaxTicks => st' = Max(since'.st.n - since'.st.k, 0)
      /\ (Ran /\ kind(Fetched) = 15 /\ low_byte(Fetched) = \h07) =>
           (v'[X] = dt /\ dt' = dt /\ st' = st) ]_vars

\* DT was loaded with 3 and is 0 at the fourth tick, ST was loaded with 1
\* one tick later; LD V2,DT had read DT = 1 in between.
C27_Witness ==
  /\ since.dt = [n |-> 3, k |-> 4] /\ dt = 0
  /\ since.st = [n |-> 1, k |-> 3] /\ st = 0
  /\ v[2] = 1 /\ last.opcode = \hF207

\* C28: Fx0A executed while more than one key is pressed unblocks and sets Vx
\* to the highest code among the pressed keys; Vx is never set to the code
\* of a released key.
C28_HighestKey ==
  [][ (Ran /\ IsKeyWait(Fetched)) =>
        /\ Cardinality(Pressed) > 1 =>
             /\ ~blocked'
             /\ v'[X] \in Pressed
             /\ \A code \in Pressed : code <= v'[X]
        /\ Pressed # {} => keys[v'[X]] = KEY_UP
        /\ Pressed = {} => v'[X] = v[X] ]_vars

\* Keys 1 and F are both pressed and LD V3,K took F.
C28_Witness ==
  /\ last.opcode = \hF30A /\ ~blocked /\ v[3] = 15
  /\ keys[1] = KEY_UP /\ keys[15] = KEY_UP /\ nevents = 2

\* C29: with x = F, VF after 8Fy4, 8Fy5, 8Fy6, 8Fy7 and 8FyE is the flag of
\* the instruction computed from the operands before it (carry of VF + Vy,
\* VF >= Vy, bit 0 of VF, Vy >= VF, bit 7 of VF), not the arithmetic result;
\* after DRW with x or y = F, VF is the collision flag: 1 iff the draw turned
\* a pixel off.
C29_FlagAliasing ==
  [][ /\ (Alu(4) /\ X = 15) => v'[15] = Flag(v[15] + v[Y] > 255)
      /\ (Alu(5) /\ X = 15) => v'[15] = Flag(v[15] >= v[Y])
      /\ (Alu(6) /\ X = 15) => v'[15] = Bit(v[15], 0)
      /\ (Alu(7) /\ X = 15) => v'[15] = Flag(v[Y] >= v[15])
      /\ (Alu(14) /\ X = 15) => v'[15] = Bit(v[15], 7)
      /\ (IsDraw /\ SpriteInRam /\ (X = 15 \/ Y = 15)) =>
           v'[15] = Flag(framebuffer \ framebuffer' # {}) ]_vars

\* C30: when a cycle fails with StackUnderflow, StackOverflow or
\* UnsupportedInstruction for an opcode fetched at A, the registers, I, the
\* stack, memory, DT, ST, the keypad, the blocked flag and the display are as
\* before the cycle and PC = A + 2.
C30_FatalState ==
  [][ (IsCycle /\ err' \in {"StackUnderflow", "StackOverflow",
                            "UnsupportedInstruction"}) =>
        /\ UNCHANGED <<v, i, stack, ram, dt, st, keys, blocked, framebuffer>>
        /\ pc' = U16(last'.at + 2)
        /\ last'.at = pc ]_vars
==========================================================================
